---------------------------- MODULE Spec2Model ----------------------------
(***************************************************************************)
(* Model of the shared household expense tracker of src/app.py: the SQLite *)
(* store (gastos_mensuales, montos_mensuales, pagos, grupos_distribucion,  *)
(* gastos_en_grupo), the operations that write it, and the monthly         *)
(* statement (calcular_tabla_mensual) and net balance (calcular_saldo_neto)*)
(* computed from it.                                                       *)
(*                                                                         *)
(* Amounts are integers in cents.  Base and override amounts are drawn     *)
(* from multiples of 1200 cents, so every division the code performs       *)
(* (/ 12, / 2, * p / 100 with a whole p) is exact and \div computes what   *)
(* the code's real arithmetic computes; floating-point rounding is not     *)
(* modelled.                                                               *)
(*                                                                         *)
(* A row id (AUTOINCREMENT) of gastos_mensuales and grupos_distribucion is *)
(* the row's position in the sequence.  The pagos table is a bag of rows:  *)
(* its id column only selects the row a deletion removes and fecha_pago is *)
(* only displayed, so neither is kept.  The label columns (concepto,       *)
(* nombre, descripcion) and the never-written grupo column are not kept.   *)
(***************************************************************************)
EXTENDS Integers, Sequences, FiniteSets, Bags, TLC

VARIABLES
    gastos,             \* table gastos_mensuales: sequence of rows, id = index
    montos_mensuales,   \* table montos_mensuales: set of rows
    pagos,              \* table pagos: bag of rows
    grupos,             \* table grupos_distribucion: sequence of rows, id = index
    gastos_en_grupo,    \* table gastos_en_grupo: set of <<grupo_id, gasto_id>>
    mes_seleccionado,   \* the month selector's <<mes_seleccionado, anio_seleccionado>>
    confirmar_eliminar_todos,   \* 'confirmar_eliminar_todos' in st.session_state
    eliminados,         \* the count of the last bulk deletion's message, or Null
    llamadas,           \* per session, its call of establecer_monto_del_mes
    retorno_crear_grupo,    \* what the last call of crear_grupo_distribucion returned
    mes_armado          \* the month selected when 'Eliminar Todos' was armed, or Null

\* The session's state: what the handlers of the store's operations leave alone
sesion == <<mes_seleccionado, confirmar_eliminar_todos, eliminados, llamadas, retorno_crear_grupo, mes_armado>>

vars == <<gastos, montos_mensuales, pagos, grupos, gastos_en_grupo,
          mes_seleccionado, confirmar_eliminar_todos, eliminados, llamadas,
          retorno_crear_grupo, mes_armado>>

----------------------------------------------------------------------------
(* Bounds of the model *)

MaxGastos == 2          \* rows of gastos_mensuales
MaxGrupos == 2          \* rows of grupos_distribucion
MaxPagos == 2           \* rows of pagos
MaxGruposPago == 1      \* rows of grupos_distribucion, outside Spec
MaxGastosSemanal == 1   \* rows of gastos_mensuales, in SpecSemanal
MaxPagosSemanal == 4    \* rows of pagos, in SpecSemanal
MaxPagosEliminar == 3   \* rows of pagos, in SpecEliminar
MaxGastosSesiones == 1  \* rows of gastos_mensuales, in SpecSesiones
PrimerAnio == 2001      \* the years of SpecCalendario: a 28-year cycle, in which
UltimoAnio == 2028      \* every month length starts on every weekday

----------------------------------------------------------------------------
(* Values *)

\* SQL NULL / Python None, and a present value
Null == <<>>
Some(v) == <<v>>

\* Python's  x or d : d when x is None or 0 (falsy), else x
PyOr(x, d) == IF x = Null THEN d ELSE IF x[1] = 0 THEN d ELSE x[1]

\* Mutant: the difference as it is
Max0_SinTope(x) == x

\* max(0, x)
Max0(x) == IF x > 0 THEN x ELSE 0

Personas == {"Ricardo", "Wendy"}
Frecuencias == {"Mensual", "Semanal", "Quincenal", "Anual"}
TiposMonto == {"fijo", "variable"}
\* The split rules the expense form offers ('agrupado' is set by the groups)
TiposDistribucionForm == {"50/50", "fijo_ricardo", "fijo_wendy", "personalizado"}

\* The (mes, anio) pairs the month selector is set to: January 2024 has five
\* Mondays, February 2024 four.
Periodos == {<<1, 2024>>, <<2, 2024>>}

\* The browser sessions, each running the script on a connection of its own
Sesiones == {"s1", "s2"}

\* A session's call of establecer_monto_del_mes: none in progress (Libre),
\* between its SELECT and its write ("leido"), or returned ("terminado")
Llamada(estado, gasto_id, mes, anio, monto, existe, retorno) ==
    [estado |-> estado, gasto_id |-> gasto_id, mes |-> mes, anio |-> anio,
     monto |-> monto, existe |-> existe, retorno |-> retorno]

Libre == Llamada("libre", 0, 0, 0, 0, FALSE, TRUE)

\* What the last call of crear_grupo_distribucion returned: no call yet
\* (SinRetorno), None (Retorno(Null)) or the new group's id (Retorno(Some(k)))
Retorno(valor) == [llamada |-> TRUE, valor |-> valor]

SinRetorno == [llamada |-> FALSE, valor |-> Null]

RECURSIVE SumF(_, _)
SumF(f, S) ==
    IF S = {} THEN 0
    ELSE LET x == CHOOSE y \in S : TRUE IN f[x] + SumF(f, S \ {x})

----------------------------------------------------------------------------
(* Calendar: datetime.date and calendar.monthrange as the code uses them *)

EsBisiesto(anio) ==
    (anio % 4 = 0) /\ ((anio % 100 # 0) \/ (anio % 400 = 0))

DiasDelMes(mes, anio) ==
    IF mes = 2 THEN (IF EsBisiesto(anio) THEN 29 ELSE 28)
    ELSE IF mes \in {4, 6, 9, 11} THEN 30 ELSE 31

RECURSIVE DiasAntesDelMes(_, _)
DiasAntesDelMes(mes, anio) ==
    IF mes = 1 THEN 0
    ELSE DiasDelMes(mes - 1, anio) + DiasAntesDelMes(mes - 1, anio)

\* date(anio, mes, dia).toordinal()
Ordinal(anio, mes, dia) ==
    LET y == anio - 1
    IN  y * 365 + (y \div 4) - (y \div 100) + (y \div 400)
        + DiasAntesDelMes(mes, anio) + dia

\* date(anio, mes, dia).weekday(): Monday is 0
Weekday(anio, mes, dia) == (Ordinal(anio, mes, dia) + 6) % 7

\* The first Monday inside the month, as a day of the month
PrimerLunes(mes, anio) ==
    LET wd == Weekday(anio, mes, 1)
    IN  IF wd = 0 THEN 1
        ELSE LET d == (7 - wd) % 7
             IN  1 + (IF d = 0 THEN 7 ELSE d)

\* Mutant: the loop stops before a Monday that is the month's last day
RECURSIVE ContarSemanas_Estricto(_, _)
ContarSemanas_Estricto(fecha_actual, ultimo_dia) ==
    IF fecha_actual < ultimo_dia
    THEN 1 + ContarSemanas_Estricto(fecha_actual + 7, ultimo_dia)
    ELSE 0

RECURSIVE ContarSemanas(_, _)
ContarSemanas(fecha_actual, ultimo_dia) ==
    IF fecha_actual <= ultimo_dia
    THEN 1 + ContarSemanas(fecha_actual + 7, ultimo_dia)
    ELSE 0

calcular_semanas_del_mes(mes, anio) ==
    LET ultimo_dia == DiasDelMes(mes, anio)
        primer_lunes == PrimerLunes(mes, anio)
    IN  IF primer_lunes > ultimo_dia THEN 0
        ELSE ContarSemanas(primer_lunes, ultimo_dia)

\* date(anio, mes, 1) + timedelta(days = dia - 1), for dia >= 1: the date
\* as <<anio, mes, dia>>
RECURSIVE FechaDesdeElMes(_, _, _)
FechaDesdeElMes(anio, mes, dia) ==
    IF dia > DiasDelMes(mes, anio)
    THEN FechaDesdeElMes(IF mes = 12 THEN anio + 1 ELSE anio,
                         IF mes = 12 THEN 1 ELSE mes + 1,
                         dia - DiasDelMes(mes, anio))
    ELSE <<anio, mes, dia>>

\* fecha.strftime('%d/%m'): the day and the month, without the year
Strftime(fecha) == <<fecha[3], fecha[2]>>

\* Mutant: the weeks are counted from the first day of the month
obtener_rango_semana_DesdeElDiaUno(mes, anio, numero_semana) ==
    LET fecha_inicio == FechaDesdeElMes(anio, mes, 1 + (numero_semana - 1) * 7)
        fecha_fin == FechaDesdeElMes(fecha_inicio[1], fecha_inicio[2],
                                     fecha_inicio[3] + 6)
    IN  <<Strftime(fecha_inicio), Strftime(fecha_fin)>>

obtener_rango_semana(mes, anio, numero_semana) ==
    LET primer_lunes == PrimerLunes(mes, anio)
        fecha_inicio == FechaDesdeElMes(
                            anio, mes, primer_lunes + (numero_semana - 1) * 7)
        fecha_fin == FechaDesdeElMes(fecha_inicio[1], fecha_inicio[2],
                                     fecha_inicio[3] + 6)
    IN  <<Strftime(fecha_inicio), Strftime(fecha_fin)>>

\* Mutant: a fortnightly amount taken once
calcular_monto_mensual_segun_frecuencia_UnaQuincena(monto_base, frecuencia, mes, anio) ==
    IF frecuencia = "Semanal"
    THEN monto_base * calcular_semanas_del_mes(mes, anio)
    ELSE IF frecuencia = "Anual" THEN monto_base \div 12
    ELSE monto_base

calcular_monto_mensual_segun_frecuencia(monto_base, frecuencia, mes, anio) ==
    IF frecuencia = "Semanal"
    THEN monto_base * calcular_semanas_del_mes(mes, anio)
    ELSE IF frecuencia = "Quincenal" THEN monto_base * 2
    ELSE IF frecuencia = "Anual" THEN monto_base \div 12
    ELSE monto_base

----------------------------------------------------------------------------
(* Split of a monthly total *)

calcular_distribucion_pago(gasto, monto_total_mes) ==
    IF gasto.tipo_distribucion = "fijo_ricardo"
    THEN LET monto_ricardo == PyOr(gasto.monto_fijo_ricardo, 0)
         IN  <<monto_ricardo, Max0(monto_total_mes - monto_ricardo)>>
    ELSE IF gasto.tipo_distribucion = "fijo_wendy"
    THEN LET monto_wendy == PyOr(gasto.monto_fijo_wendy, 0)
         IN  <<Max0(monto_total_mes - monto_wendy), monto_wendy>>
    ELSE IF gasto.tipo_distribucion = "personalizado"
    THEN LET porcentaje_r == PyOr(gasto.porcentaje_ricardo, 50)
             monto_ricardo == (monto_total_mes * porcentaje_r) \div 100
         IN  <<monto_ricardo, monto_total_mes - monto_ricardo>>
    ELSE <<monto_total_mes \div 2, monto_total_mes \div 2>>

----------------------------------------------------------------------------
(* Queries on the store *)

GastoIds == 1..Len(gastos)
GrupoIds == 1..Len(grupos)

GastosActivos == {g \in GastoIds : gastos[g].activo = 1}
GruposActivos == {k \in GrupoIds : grupos[k].activo = 1}

\* The rows of montos_mensuales for a key
FilasMonto(gasto_id, mes, anio) ==
    {m \in montos_mensuales :
        m.gasto_id = gasto_id /\ m.mes = mes /\ m.anio = anio}

\* Mutant: the override looked up by expense only, whatever its month
obtener_monto_del_mes_SinMes(gasto_id, mes, anio) ==
    IF \E m \in montos_mensuales : m.gasto_id = gasto_id
    THEN (CHOOSE m \in montos_mensuales : m.gasto_id = gasto_id).monto_total
    ELSE IF gasto_id \in GastoIds THEN gastos[gasto_id].monto_total ELSE 0

obtener_monto_del_mes(gasto_id, mes, anio) ==
    IF FilasMonto(gasto_id, mes, anio) # {}
    THEN (CHOOSE m \in FilasMonto(gasto_id, mes, anio) : TRUE).monto_total
    ELSE IF gasto_id \in GastoIds THEN gastos[gasto_id].monto_total ELSE 0

\* The monto_total column of obtener_montos_configurados for an active expense
MontoConfigurado(gasto_id, mes, anio) ==
    IF gastos[gasto_id].tipo_monto = "variable"
    THEN obtener_monto_del_mes(gasto_id, mes, anio)
    ELSE gastos[gasto_id].monto_total

\* The rows of obtener_montos_configurados: the active expenses
obtener_montos_configurados(mes, anio) ==
    [g \in GastosActivos |->
        [gastos[g] EXCEPT !.monto_total = MontoConfigurado(g, mes, anio)]]

\* The 'gastos' of a group in obtener_grupos_distribucion: its active members
GastosDeGrupo(grupo_id) ==
    {g \in GastosActivos : <<grupo_id, g>> \in gastos_en_grupo}

\* The pagos rows matching a key, as a set of distinct row contents
PagosDe(gasto_id, mes, anio, quien_pago) ==
    {p \in BagToSet(pagos) :
        /\ p.gasto_id = gasto_id /\ p.mes = mes /\ p.anio = anio
        /\ p.quien_pago = quien_pago}

\* Mutant: the month and the year are not compared
verificar_pago_existente_SinMes(gasto_id, mes, anio, quien_pago, semana) ==
    \E p \in BagToSet(pagos) :
        /\ p.gasto_id = gasto_id /\ p.quien_pago = quien_pago
        /\ semana # Null => p.semana = semana

\* Mutant: the week number is not compared
verificar_pago_existente_SinSemana(gasto_id, mes, anio, quien_pago, semana) ==
    PagosDe(gasto_id, mes, anio, quien_pago) # {}

\* Mutant: the payments of active expenses only
verificar_pago_existente_SoloActivos(gasto_id, mes, anio, quien_pago, semana) ==
    /\ gasto_id \in GastosActivos
    /\ IF semana # Null
       THEN \E p \in PagosDe(gasto_id, mes, anio, quien_pago) : p.semana = semana
       ELSE PagosDe(gasto_id, mes, anio, quien_pago) # {}

verificar_pago_existente(gasto_id, mes, anio, quien_pago, semana) ==
    IF semana # Null
    THEN \E p \in PagosDe(gasto_id, mes, anio, quien_pago) : p.semana = semana
    ELSE PagosDe(gasto_id, mes, anio, quien_pago) # {}

\* The week numbers that occur in the ledger
SemanasEnPagos == {p.semana[1] : p \in {q \in BagToSet(pagos) : q.semana # Null}}

\* Number of pagos rows of a key with week number s
FilasSemana(gasto_id, mes, anio, quien_pago, s) ==
    SumF([p \in PagosDe(gasto_id, mes, anio, quien_pago) |->
            IF p.semana = Some(s) THEN CopiesIn(p, pagos) ELSE 0],
         PagosDe(gasto_id, mes, anio, quien_pago))

Repetir(x, n) == [i \in 1..n |-> x]

\* SELECT semana ... AND semana IS NOT NULL ORDER BY semana: one entry per row
RECURSIVE SemanasOrdenadas(_, _, _, _, _)
SemanasOrdenadas(gasto_id, mes, anio, quien_pago, S) ==
    IF S = {} THEN <<>>
    ELSE LET s == CHOOSE x \in S : \A y \in S : x <= y
         IN  Repetir(s, FilasSemana(gasto_id, mes, anio, quien_pago, s))
             \o SemanasOrdenadas(gasto_id, mes, anio, quien_pago, S \ {s})

obtener_semanas_pagadas(gasto_id, mes, anio, quien_pago) ==
    SemanasOrdenadas(gasto_id, mes, anio, quien_pago, SemanasEnPagos)

----------------------------------------------------------------------------
(* The monthly statement *)

\* Mutant: the members' amounts summed without the frequency conversion
MontoTotalGrupo_SinFrecuencia(grupo_id, mes, anio) ==
    SumF([g \in GastosDeGrupo(grupo_id) |-> obtener_monto_del_mes(g, mes, anio)],
         GastosDeGrupo(grupo_id))

\* Monthly total of a group: override-or-base of every active member,
\* converted by its frequency
MontoTotalGrupo(grupo_id, mes, anio) ==
    SumF([g \in GastosDeGrupo(grupo_id) |->
            calcular_monto_mensual_segun_frecuencia(
                obtener_monto_del_mes(g, mes, anio),
                gastos[g].frecuencia, mes, anio)],
         GastosDeGrupo(grupo_id))

\* Split of a group's total by the group's fixed rule
DistribucionGrupo(grupo, monto_total_grupo) ==
    IF grupo.quien_paga_fijo = "Ricardo"
    THEN LET monto_fijo == PyOr(grupo.monto_fijo_ricardo, 0)
         IN  <<monto_fijo, Max0(monto_total_grupo - monto_fijo)>>
    ELSE IF grupo.quien_paga_fijo = "Wendy"
    THEN LET monto_fijo == PyOr(grupo.monto_fijo_wendy, 0)
         IN  <<Max0(monto_total_grupo - monto_fijo), monto_fijo>>
    ELSE <<monto_total_grupo \div 2, monto_total_grupo \div 2>>

\* Mutant: any() in place of all()
GrupoPagado_AlgunMiembro(grupo_id, mes, anio, quien_pago) ==
    \E g \in GastosDeGrupo(grupo_id) :
        verificar_pago_existente(g, mes, anio, quien_pago, Null)

\* all(verificar_pago_existente(g_id, mes, anio, quien) for g_id in gastos_grupo)
GrupoPagado(grupo_id, mes, anio, quien_pago) ==
    \A g \in GastosDeGrupo(grupo_id) :
        verificar_pago_existente(g, mes, anio, quien_pago, Null)

FilaGrupo(grupo_id, mes, anio) ==
    LET total == MontoTotalGrupo(grupo_id, mes, anio)
        dist == DistribucionGrupo(grupos[grupo_id], total)
    IN  [id |-> <<"grupo", grupo_id>>,
         MontoTotal |-> total,
         Frecuencia |-> "Grupo",
         DebeRicardo |-> dist[1],
         DebeWendy |-> dist[2],
         RicardoPago |-> GrupoPagado(grupo_id, mes, anio, "Ricardo"),
         WendyPago |-> GrupoPagado(grupo_id, mes, anio, "Wendy")]

\* Paid flag of an individual row
GastoPagado(gasto_id, frecuencia, mes, anio, quien_pago) ==
    IF frecuencia = "Semanal"
    THEN Len(obtener_semanas_pagadas(gasto_id, mes, anio, quien_pago))
            = calcular_semanas_del_mes(mes, anio)
    ELSE verificar_pago_existente(gasto_id, mes, anio, quien_pago, Null)

FilaGasto(gasto_id, mes, anio) ==
    LET gasto == obtener_montos_configurados(mes, anio)[gasto_id]
        total == calcular_monto_mensual_segun_frecuencia(
                     gasto.monto_total, gasto.frecuencia, mes, anio)
        dist == calcular_distribucion_pago(gasto, total)
    IN  [id |-> <<"gasto", gasto_id>>,
         MontoTotal |-> total,
         Frecuencia |-> gasto.frecuencia,
         DebeRicardo |-> dist[1],
         DebeWendy |-> dist[2],
         RicardoPago |-> GastoPagado(gasto_id, gasto.frecuencia, mes, anio, "Ricardo"),
         WendyPago |-> GastoPagado(gasto_id, gasto.frecuencia, mes, anio, "Wendy")]

\* The groups that get a row: active, with at least one active member
GruposConFila == {k \in GruposActivos : GastosDeGrupo(k) # {}}

\* gastos_procesados after the loop over the groups
GastosProcesados == UNION {GastosDeGrupo(k) : k \in GruposConFila}

\* The expenses that get a row of their own
GastosConFila ==
    {g \in GastosActivos :
        g \notin GastosProcesados /\ gastos[g].tipo_distribucion # "agrupado"}

calcular_tabla_mensual(mes, anio) ==
    IF GastosActivos = {} THEN {}
    ELSE {FilaGrupo(k, mes, anio) : k \in GruposConFila}
         \cup {FilaGasto(g, mes, anio) : g \in GastosConFila}

\* SELECT SUM(monto_pagado) FROM pagos WHERE mes, anio, quien_pago (or 0.0)
\* Mutant: the payments of active expenses only
TotalPagado_SoloActivos(mes, anio, quien_pago) ==
    LET filas == {p \in BagToSet(pagos) :
                    /\ p.mes = mes /\ p.anio = anio /\ p.quien_pago = quien_pago
                    /\ p.gasto_id \in GastosActivos}
    IN  SumF([p \in filas |-> p.monto_pagado * CopiesIn(p, pagos)], filas)

TotalPagado(mes, anio, quien_pago) ==
    LET filas == {p \in BagToSet(pagos) :
                    p.mes = mes /\ p.anio = anio /\ p.quien_pago = quien_pago}
    IN  SumF([p \in filas |-> p.monto_pagado * CopiesIn(p, pagos)], filas)

calcular_saldo_neto(mes, anio) ==
    LET config == obtener_montos_configurados(mes, anio)
        total_debe_cada_uno ==
            SumF([g \in GastosActivos |-> config[g].monto_total], GastosActivos) \div 2
        pagado_ricardo == TotalPagado(mes, anio, "Ricardo")
        pagado_wendy == TotalPagado(mes, anio, "Wendy")
    IN  [total_debe_cada_uno |-> total_debe_cada_uno,
         pagado_ricardo |-> pagado_ricardo,
         pagado_wendy |-> pagado_wendy,
         saldo_ricardo |-> total_debe_cada_uno - pagado_ricardo,
         saldo_wendy |-> total_debe_cada_uno - pagado_wendy]

----------------------------------------------------------------------------
(* Initial state: conectar_db on a new database file creates empty tables;  *)
(* a new session has the selector on the current month (January 2024 here) *)
(* and an empty session_state                                              *)

Init ==
    /\ gastos = <<>>
    /\ montos_mensuales = {}
    /\ pagos = EmptyBag
    /\ grupos = <<>>
    /\ gastos_en_grupo = {}
    /\ mes_seleccionado = <<1, 2024>>
    /\ confirmar_eliminar_todos = FALSE
    /\ eliminados = <<>>
    /\ llamadas = [s \in Sesiones |-> Libre]
    /\ retorno_crear_grupo = SinRetorno
    /\ mes_armado = Null

----------------------------------------------------------------------------
(* Expenses *)

\* What the add/edit form hands over for a choice of its widgets: the fixed
\* amount of the chosen payer only, the slider's value only for 'personalizado'
Formulario(concepto, monto_total, frecuencia, tipo_monto, tipo_distribucion, monto_fijo, porcentaje) ==
    [concepto |-> concepto,
     monto_total |-> monto_total,
     frecuencia |-> frecuencia,
     tipo_monto |-> tipo_monto,
     tipo_distribucion |-> tipo_distribucion,
     monto_fijo_ricardo |->
        IF tipo_distribucion = "fijo_ricardo" THEN Some(monto_fijo) ELSE Null,
     monto_fijo_wendy |->
        IF tipo_distribucion = "fijo_wendy" THEN Some(monto_fijo) ELSE Null,
     porcentaje_ricardo |->
        IF tipo_distribucion = "personalizado" THEN Some(porcentaje) ELSE Some(50)]

\* The row an add or edit writes from a form
FilaDeFormulario(f, activo) ==
    [monto_total |-> f.monto_total,
     frecuencia |-> f.frecuencia,
     tipo_monto |-> f.tipo_monto,
     tipo_distribucion |-> f.tipo_distribucion,
     monto_fijo_ricardo |-> f.monto_fijo_ricardo,
     monto_fijo_wendy |-> f.monto_fijo_wendy,
     porcentaje_ricardo |-> f.porcentaje_ricardo,
     activo |-> activo]

\* The checks of the 'Agregar Gasto' submit handler
FormularioAceptado(f) ==
    /\ f.concepto # "" /\ f.monto_total > 0
    /\ ~(/\ f.tipo_distribucion = "fijo_ricardo"
         /\ PyOr(f.monto_fijo_ricardo, 0) # 0
         /\ f.monto_fijo_ricardo[1] > f.monto_total)
    /\ ~(/\ f.tipo_distribucion = "fijo_wendy"
         /\ PyOr(f.monto_fijo_wendy, 0) # 0
         /\ f.monto_fijo_wendy[1] > f.monto_total)

\* 'Agregar Gasto' form submit: validate, then crear_gasto_mensual
AgregarGasto(f) ==
    /\ gastos' = IF FormularioAceptado(f)
                 THEN Append(gastos, FilaDeFormulario(f, 1))
                 ELSE gastos
    /\ UNCHANGED <<montos_mensuales, pagos, grupos, gastos_en_grupo>>
    /\ UNCHANGED sesion

\* The list's lookup of an active group holding the expense (grupo_nombre)
EnGrupoActivo(gasto_id) ==
    \E k \in GruposActivos : <<k, gasto_id>> \in gastos_en_grupo

\* 'Guardar' of the edit form, offered for a listed expense that is in no
\* active group: actualizar_gasto_mensual with the form's values, unchecked
EditarGasto(gasto_id, f) ==
    /\ gasto_id \in GastosActivos
    /\ ~EnGrupoActivo(gasto_id)
    /\ gastos' = [gastos EXCEPT ![gasto_id] = FilaDeFormulario(f, @.activo)]
    /\ UNCHANGED <<montos_mensuales, pagos, grupos, gastos_en_grupo>>
    /\ UNCHANGED sesion

\* The list's delete button: desactivar_gasto_mensual
desactivar_gasto_mensual(id_gasto) ==
    /\ id_gasto \in GastosActivos
    /\ gastos' = [gastos EXCEPT ![id_gasto].activo = 0]
    /\ UNCHANGED <<montos_mensuales, pagos, grupos, gastos_en_grupo>>
    /\ UNCHANGED sesion

----------------------------------------------------------------------------
(* Monthly amounts *)

\* The table after establecer_monto_del_mes: update the key's row, or insert
MontosTrasEstablecer(gasto_id, mes, anio, monto) ==
    IF FilasMonto(gasto_id, mes, anio) # {}
    THEN {IF m \in FilasMonto(gasto_id, mes, anio)
          THEN [m EXCEPT !.monto_total = monto] ELSE m : m \in montos_mensuales}
    ELSE montos_mensuales \cup
            {[gasto_id |-> gasto_id, mes |-> mes, anio |-> anio,
              monto_total |-> monto]}

\* The save button of 'Editar Montos de este Mes', shown for the active
\* expenses of kind 'variable': establecer_monto_del_mes
establecer_monto_del_mes(gasto_id, mes, anio, monto) ==
    /\ gasto_id \in GastosActivos
    /\ gastos[gasto_id].tipo_monto = "variable"
    /\ montos_mensuales' = MontosTrasEstablecer(gasto_id, mes, anio, monto)
    /\ UNCHANGED <<gastos, pagos, grupos, gastos_en_grupo>>
    /\ UNCHANGED sesion

\* establecer_monto_del_mes up to its SELECT: the session has read whether
\* the key has a row
LeerMontoDelMes(s, gasto_id, mes, anio, monto) ==
    /\ llamadas[s].estado # "leido"
    /\ gasto_id \in GastosActivos
    /\ gastos[gasto_id].tipo_monto = "variable"
    /\ llamadas' = [llamadas EXCEPT ![s] =
            Llamada("leido", gasto_id, mes, anio, monto,
                    FilasMonto(gasto_id, mes, anio) # {}, TRUE)]
    /\ UNCHANGED <<gastos, montos_mensuales, pagos, grupos, gastos_en_grupo,
                   mes_seleccionado, confirmar_eliminar_todos, eliminados,
                   retorno_crear_grupo, mes_armado>>

\* Mutant: a table without UNIQUE(gasto_id, mes, anio), the INSERT always adds
MontosTrasEscribir_SinUnique(c) ==
    IF c.existe
    THEN {IF m \in FilasMonto(c.gasto_id, c.mes, c.anio)
          THEN [m EXCEPT !.monto_total = c.monto] ELSE m : m \in montos_mensuales}
    ELSE montos_mensuales \cup
            {[gasto_id |-> c.gasto_id, mes |-> c.mes, anio |-> c.anio,
              monto_total |-> c.monto]}

\* The table after the write of call c: UPDATE of the key's rows when the
\* SELECT found one; else INSERT, which UNIQUE(gasto_id, mes, anio) refuses
\* when the key has a row by now (IntegrityError, rollback)
MontosTrasEscribir(c) ==
    IF c.existe
    THEN {IF m \in FilasMonto(c.gasto_id, c.mes, c.anio)
          THEN [m EXCEPT !.monto_total = c.monto] ELSE m : m \in montos_mensuales}
    ELSE IF FilasMonto(c.gasto_id, c.mes, c.anio) # {}
    THEN montos_mensuales
    ELSE montos_mensuales \cup
            {[gasto_id |-> c.gasto_id, mes |-> c.mes, anio |-> c.anio,
              monto_total |-> c.monto]}

\* What call c returns: False when its INSERT was refused
RetornoDeEscribir(c) ==
    c.existe \/ FilasMonto(c.gasto_id, c.mes, c.anio) = {}

\* establecer_monto_del_mes from its write to its return
EscribirMontoDelMes(s) ==
    /\ llamadas[s].estado = "leido"
    /\ montos_mensuales' = MontosTrasEscribir(llamadas[s])
    /\ llamadas' = [llamadas EXCEPT ![s] =
            Llamada("terminado", 0, 0, 0, 0, FALSE, RetornoDeEscribir(llamadas[s]))]
    /\ UNCHANGED <<gastos, pagos, grupos, gastos_en_grupo,
                   mes_seleccionado, confirmar_eliminar_todos, eliminados,
                   retorno_crear_grupo, mes_armado>>

----------------------------------------------------------------------------
(* Groups *)

\* A list with the same id twice: the second INSERT into gastos_en_grupo
\* violates UNIQUE(grupo_id, gasto_id)
TieneRepetidos(lista) ==
    \E i, j \in 1..Len(lista) : i < j /\ lista[i] = lista[j]

Elementos(lista) == {lista[i] : i \in 1..Len(lista)}

\* gastos with tipo_distribucion set to t for the ids in S
GastosConDistribucion(S, t) ==
    [g \in GastoIds |->
        IF g \in S THEN [gastos[g] EXCEPT !.tipo_distribucion = t] ELSE gastos[g]]

\* The group row of the INSERT
FilaGrupoNueva(quien_paga_fijo, monto_fijo) ==
    [monto_fijo_ricardo |->
        IF quien_paga_fijo = "Ricardo" THEN Some(monto_fijo) ELSE Null,
     monto_fijo_wendy |->
        IF quien_paga_fijo = "Wendy" THEN Some(monto_fijo) ELSE Null,
     quien_paga_fijo |-> quien_paga_fijo,
     activo |-> 1]

\* Mutant: the except branch returns None without conn.rollback(), and the
\* rows written before the IntegrityError are committed by a later commit
crear_grupo_distribucion_SinRollback(quien_paga_fijo, monto_fijo, gastos_ids) ==
    /\ grupos' = Append(grupos, FilaGrupoNueva(quien_paga_fijo, monto_fijo))
    /\ gastos_en_grupo' = gastos_en_grupo \cup
            {<<Len(grupos) + 1, g>> : g \in Elementos(gastos_ids)}
    /\ gastos' = GastosConDistribucion(Elementos(gastos_ids), "agrupado")
    /\ retorno_crear_grupo' =
            IF TieneRepetidos(gastos_ids) THEN Retorno(Null)
            ELSE Retorno(Some(Len(grupos) + 1))
    /\ UNCHANGED <<montos_mensuales, pagos>>
    /\ UNCHANGED <<mes_seleccionado, confirmar_eliminar_todos, eliminados,
                   llamadas, mes_armado>>

crear_grupo_distribucion(quien_paga_fijo, monto_fijo, gastos_ids) ==
    /\ IF TieneRepetidos(gastos_ids)
       THEN \* IntegrityError: rollback, return None
            /\ UNCHANGED <<gastos, grupos, gastos_en_grupo>>
            /\ retorno_crear_grupo' = Retorno(Null)
       ELSE /\ grupos' = Append(grupos, FilaGrupoNueva(quien_paga_fijo, monto_fijo))
            /\ gastos_en_grupo' = gastos_en_grupo \cup
                    {<<Len(grupos) + 1, g>> : g \in Elementos(gastos_ids)}
            /\ gastos' = GastosConDistribucion(Elementos(gastos_ids), "agrupado")
            /\ retorno_crear_grupo' = Retorno(Some(Len(grupos) + 1))
    /\ UNCHANGED <<montos_mensuales, pagos>>
    /\ UNCHANGED <<mes_seleccionado, confirmar_eliminar_todos, eliminados,
                   llamadas, mes_armado>>

agregar_gasto_a_grupo(grupo_id, gasto_id) ==
    /\ IF <<grupo_id, gasto_id>> \in gastos_en_grupo
       THEN \* IntegrityError: return False
            UNCHANGED <<gastos, gastos_en_grupo>>
       ELSE /\ gastos_en_grupo' = gastos_en_grupo \cup {<<grupo_id, gasto_id>>}
            /\ gastos' = GastosConDistribucion({gasto_id}, "agrupado")
    /\ UNCHANGED <<montos_mensuales, pagos, grupos>>
    /\ UNCHANGED sesion

remover_gasto_de_grupo(grupo_id, gasto_id) ==
    /\ gastos_en_grupo' = gastos_en_grupo \ {<<grupo_id, gasto_id>>}
    /\ gastos' = GastosConDistribucion({gasto_id}, "50/50")
    /\ UNCHANGED <<montos_mensuales, pagos, grupos>>
    /\ UNCHANGED sesion

eliminar_grupo_distribucion(grupo_id) ==
    /\ gastos' = GastosConDistribucion(
                    {g \in GastoIds : <<grupo_id, g>> \in gastos_en_grupo}, "50/50")
    /\ grupos' = [grupos EXCEPT ![grupo_id].activo = 0]
    /\ UNCHANGED <<montos_mensuales, pagos, gastos_en_grupo>>
    /\ UNCHANGED sesion

----------------------------------------------------------------------------
(* Payments *)

FilaPago(gasto_id, mes, anio, quien_pago, monto_pagado, semana) ==
    [gasto_id |-> gasto_id, mes |-> mes, anio |-> anio,
     quien_pago |-> quien_pago, monto_pagado |-> monto_pagado,
     semana |-> semana]

registrar_pago(gasto_id, mes, anio, quien_pago, monto_pagado, semana) ==
    /\ pagos' = pagos (+) SetToBag(
                    {FilaPago(gasto_id, mes, anio, quien_pago, monto_pagado, semana)})
    /\ UNCHANGED <<gastos, montos_mensuales, grupos, gastos_en_grupo>>
    /\ UNCHANGED sesion

\* DELETE FROM pagos WHERE id = ?, for the id of a row with contents fila
eliminar_pago(fila) ==
    /\ BagIn(fila, pagos)
    /\ pagos' = pagos (-) SetToBag({fila})
    /\ UNCHANGED <<gastos, montos_mensuales, grupos, gastos_en_grupo>>
    /\ UNCHANGED sesion

eliminar_pago_por_criterios(gasto_id, mes, anio, quien_pago) ==
    /\ pagos' = [p \in BagToSet(pagos) \ PagosDe(gasto_id, mes, anio, quien_pago)
                    |-> pagos[p]]
    /\ UNCHANGED <<gastos, montos_mensuales, grupos, gastos_en_grupo>>
    /\ UNCHANGED sesion

\* The rows of obtener_pagos_del_mes: the month's payments, joined with
\* their expense
obtener_pagos_del_mes(mes, anio) ==
    {p \in BagToSet(pagos) :
        p.mes = mes /\ p.anio = anio /\ p.gasto_id \in GastoIds}

\* Number of rows of pagos for a month
FilasDelMes(mes, anio) ==
    LET filas == {p \in BagToSet(pagos) : p.mes = mes /\ p.anio = anio}
    IN  SumF([p \in filas |-> CopiesIn(p, pagos)], filas)

\* Mutant: DELETE FROM pagos without the WHERE clause
PagosTrasEliminarTodos_SinFiltro(mes, anio) == EmptyBag

\* The table after DELETE FROM pagos WHERE mes = ? AND anio = ?
PagosTrasEliminarTodos(mes, anio) ==
    [p \in {q \in BagToSet(pagos) : ~(q.mes = mes /\ q.anio = anio)} |-> pagos[p]]

\* Mutant: the button deletes at once, with no confirmation
EliminarTodos_SinConfirmar ==
    /\ obtener_pagos_del_mes(mes_seleccionado[1], mes_seleccionado[2]) # {}
    /\ pagos' = PagosTrasEliminarTodos(mes_seleccionado[1], mes_seleccionado[2])
    /\ eliminados' = Some(FilasDelMes(mes_seleccionado[1], mes_seleccionado[2]))
    /\ UNCHANGED <<gastos, montos_mensuales, grupos, gastos_en_grupo,
                   mes_seleccionado, confirmar_eliminar_todos, llamadas,
                   retorno_crear_grupo, mes_armado>>

\* The 'Eliminar Todos' button of the delete tab, shown while the selected
\* month has payments: the first click arms, the next one deletes
EliminarTodos ==
    /\ obtener_pagos_del_mes(mes_seleccionado[1], mes_seleccionado[2]) # {}
    /\ IF ~confirmar_eliminar_todos
       THEN /\ confirmar_eliminar_todos' = TRUE
            /\ mes_armado' = Some(mes_seleccionado)
            /\ UNCHANGED <<pagos, eliminados>>
       ELSE /\ pagos' = PagosTrasEliminarTodos(
                            mes_seleccionado[1], mes_seleccionado[2])
            /\ eliminados' =
                    Some(FilasDelMes(mes_seleccionado[1], mes_seleccionado[2]))
            /\ confirmar_eliminar_todos' = FALSE
            /\ mes_armado' = Null
    /\ UNCHANGED <<gastos, montos_mensuales, grupos, gastos_en_grupo,
                   mes_seleccionado, llamadas, retorno_crear_grupo>>

----------------------------------------------------------------------------
(* The 'Pagar Gastos' tab, for the selected month *)

\* monto_pagar of a listed expense before the branch on its frequency: the
\* person's part of the month's total under the expense's distribution
MontoPagarSegunReparto(gasto_id, persona) ==
    LET gasto == obtener_montos_configurados(
                    mes_seleccionado[1], mes_seleccionado[2])[gasto_id]
        monto_total_mes == calcular_monto_mensual_segun_frecuencia(
                    gasto.monto_total, gasto.frecuencia,
                    mes_seleccionado[1], mes_seleccionado[2])
        dist == calcular_distribucion_pago(gasto, monto_total_mes)
    IN  IF persona = "Ricardo" THEN dist[1] ELSE dist[2]

\* monto_pagar of the branch of the expenses that are not weekly
MontoPagarNoSemanal(gasto_id) ==
    LET gasto == obtener_montos_configurados(
                    mes_seleccionado[1], mes_seleccionado[2])[gasto_id]
    IN  calcular_monto_mensual_segun_frecuencia(
            gasto.monto_total, gasto.frecuencia,
            mes_seleccionado[1], mes_seleccionado[2]) \div 2

\* monto_semanal_persona
MontoSemanalPersona(gasto_id, persona) ==
    MontoPagarSegunReparto(gasto_id, persona)
        \div calcular_semanas_del_mes(mes_seleccionado[1], mes_seleccionado[2])

\* semanas_pendientes
SemanasPendientes(gasto_id, persona) ==
    {n \in 1..calcular_semanas_del_mes(mes_seleccionado[1], mes_seleccionado[2]) :
        \A i \in DOMAIN obtener_semanas_pagadas(
                    gasto_id, mes_seleccionado[1], mes_seleccionado[2], persona) :
            obtener_semanas_pagadas(
                gasto_id, mes_seleccionado[1], mes_seleccionado[2], persona)[i] # n}

\* Mutant: the button is offered whether or not the person has paid
PagarGasto_SinVerificar(gasto_id, persona) ==
    /\ gasto_id \in GastosActivos
    /\ gastos[gasto_id].frecuencia # "Semanal"
    /\ registrar_pago(gasto_id, mes_seleccionado[1], mes_seleccionado[2],
                      persona, MontoPagarNoSemanal(gasto_id), Null)

\* The 'Pagar' button of a listed expense that is not weekly, offered while
\* the person has no payment of it in the selected month
PagarGasto(gasto_id, persona) ==
    /\ gasto_id \in GastosActivos
    /\ gastos[gasto_id].frecuencia # "Semanal"
    /\ ~verificar_pago_existente(gasto_id, mes_seleccionado[1],
                                 mes_seleccionado[2], persona, Null)
    /\ registrar_pago(gasto_id, mes_seleccionado[1], mes_seleccionado[2],
                      persona, MontoPagarNoSemanal(gasto_id), Null)

\* The 'Pagar' button of a pending week of a listed weekly expense
PagarSemana(gasto_id, persona, num_semana) ==
    /\ gasto_id \in GastosActivos
    /\ gastos[gasto_id].frecuencia = "Semanal"
    /\ num_semana \in SemanasPendientes(gasto_id, persona)
    /\ registrar_pago(gasto_id, mes_seleccionado[1], mes_seleccionado[2],
                      persona, MontoSemanalPersona(gasto_id, persona),
                      Some(num_semana))

----------------------------------------------------------------------------
(* The tabs of Ricardo and of Wendy, for the selected month *)

\* debe_pagar_total of a statement row
debe_pagar_total(fila, persona) ==
    IF persona = "Ricardo" THEN fila.DebeRicardo ELSE fila.DebeWendy

\* ya_pago of a statement row: both queries name a column id_gasto, pagos
\* has gasto_id, so execute raises and the except branch leaves 0
ya_pago(fila, persona) == 0

pendiente(fila, persona) == debe_pagar_total(fila, persona) - ya_pago(fila, persona)

\* gastos_con_info: the rows listed as pending
gastos_con_info(persona) ==
    {fila \in calcular_tabla_mensual(mes_seleccionado[1], mes_seleccionado[2]) :
        pendiente(fila, persona) > 0}

----------------------------------------------------------------------------
(* Session *)

\* The month selector is set to another month
SeleccionarMes(p) ==
    /\ p # mes_seleccionado
    /\ mes_seleccionado' = p
    /\ UNCHANGED <<gastos, montos_mensuales, pagos, grupos, gastos_en_grupo,
                   confirmar_eliminar_todos, eliminados, llamadas,
                   retorno_crear_grupo, mes_armado>>

----------------------------------------------------------------------------
(* Inputs *)

\* Lists of expense ids handed to crear_grupo_distribucion, repeats included
ListasDeGastos == UNION {[1..n -> GastoIds] : n \in 1..Len(gastos)}

\* One plain form: a monthly 120.00, fixed amount, split 50/50
FormulariosBasicos ==
    {Formulario("Luz", 12000, "Mensual", "fijo", "50/50", 0, 50)}

MontosFijosGrupo == {7000}
MontosPago == {6000}

----------------------------------------------------------------------------
(* Spec: the store under the expense, group and payment operations, with   *)
(* plain expenses (monthly, fixed amount, 50/50) and payments without week *)

Next ==
    \/ \E f \in FormulariosBasicos :
            Len(gastos) < MaxGastos /\ AgregarGasto(f)
    \/ \E g \in GastoIds, f \in FormulariosBasicos : EditarGasto(g, f)
    \/ \E g \in GastoIds : desactivar_gasto_mensual(g)
    \/ \E q \in Personas, m \in MontosFijosGrupo, l \in ListasDeGastos :
            Len(grupos) < MaxGrupos /\ crear_grupo_distribucion(q, m, l)
    \/ \E k \in GrupoIds, g \in GastoIds : agregar_gasto_a_grupo(k, g)
    \/ \E k \in GrupoIds, g \in GastoIds : remover_gasto_de_grupo(k, g)
    \/ \E k \in GrupoIds : eliminar_grupo_distribucion(k)
    \/ \E g \in GastoIds, p \in Periodos, q \in Personas, m \in MontosPago :
            /\ BagCardinality(pagos) < MaxPagos
            /\ registrar_pago(g, p[1], p[2], q, m, Null)
    \/ \E fila \in BagToSet(pagos) : eliminar_pago(fila)

Spec == Init /\ [][Next]_vars

----------------------------------------------------------------------------
(* SpecPagoGrupo: groups as created and deleted from the groups tab, their *)
(* members' deactivation, and payments.  The fixed payer of a group plays  *)
(* no part in the paid flags and is always Ricardo here.                   *)

NextPagoGrupo ==
    \/ \E f \in FormulariosBasicos :
            Len(gastos) < MaxGastos /\ AgregarGasto(f)
    \/ \E g \in GastoIds : desactivar_gasto_mensual(g)
    \/ \E m \in MontosFijosGrupo, l \in ListasDeGastos :
            Len(grupos) < MaxGruposPago /\ crear_grupo_distribucion("Ricardo", m, l)
    \/ \E k \in GrupoIds : eliminar_grupo_distribucion(k)
    \/ \E g \in GastoIds, p \in Periodos, q \in Personas, m \in MontosPago :
            /\ BagCardinality(pagos) < MaxPagos
            /\ registrar_pago(g, p[1], p[2], q, m, Null)
    \/ \E fila \in BagToSet(pagos) : eliminar_pago(fila)

SpecPagoGrupo == Init /\ [][NextPagoGrupo]_vars

----------------------------------------------------------------------------
(* SpecReparto: expenses of every frequency and split rule, added, edited  *)
(* and deactivated from the expenses tab, and groups created and deleted   *)
(* from the groups tab.  No override and no payment is written.            *)

\* Every choice of the form's widgets over a base amount of 120.00, a fixed
\* contribution of 100.00 and the slider at 0, 30 or 100
FormulariosReparto ==
    {Formulario("Luz", 12000, fr, "fijo", td, 10000, pc) :
        fr \in Frecuencias, td \in TiposDistribucionForm \ {"personalizado"},
        pc \in {50}}
    \cup {Formulario("Luz", 12000, fr, "fijo", "personalizado", 0, pc) :
            fr \in Frecuencias, pc \in {0, 30, 100}}

NextReparto ==
    \/ \E f \in FormulariosReparto :
            Len(gastos) < MaxGastos /\ AgregarGasto(f)
    \/ \E g \in GastoIds, f \in FormulariosReparto : EditarGasto(g, f)
    \/ \E g \in GastoIds : desactivar_gasto_mensual(g)
    \/ \E q \in Personas, m \in MontosFijosGrupo, l \in ListasDeGastos :
            Len(grupos) < MaxGruposPago /\ crear_grupo_distribucion(q, m, l)
    \/ \E k \in GrupoIds : eliminar_grupo_distribucion(k)

SpecReparto == Init /\ [][NextReparto]_vars

----------------------------------------------------------------------------
(* SpecMontos: monthly expenses of fixed or variable amount, split 50/50,  *)
(* their month overrides, and groups.                                      *)

FormulariosMontos ==
    {Formulario("Luz", 12000, "Mensual", tm, "50/50", 0, 50) : tm \in TiposMonto}

\* The amounts typed for a month: 60.00 and 240.00
MontosDelMes == {6000, 24000}

NextMontos ==
    \/ \E f \in FormulariosMontos :
            Len(gastos) < MaxGastos /\ AgregarGasto(f)
    \/ \E g \in GastoIds, f \in FormulariosMontos : EditarGasto(g, f)
    \/ \E g \in GastoIds : desactivar_gasto_mensual(g)
    \/ \E g \in GastoIds, p \in Periodos, m \in MontosDelMes :
            establecer_monto_del_mes(g, p[1], p[2], m)
    \/ \E q \in Personas, m \in MontosFijosGrupo, l \in ListasDeGastos :
            Len(grupos) < MaxGruposPago /\ crear_grupo_distribucion(q, m, l)
    \/ \E k \in GrupoIds : eliminar_grupo_distribucion(k)

SpecMontos == Init /\ [][NextMontos]_vars

----------------------------------------------------------------------------
(* SpecSemanal: a weekly expense and the ledger of its payments, with and  *)
(* without week number.                                                    *)

FormulariosSemanal ==
    {Formulario("Mercado", 12000, "Semanal", "fijo", "50/50", 0, 50)}

\* The week numbers a payment is recorded with: none, or 1 to 5
SemanasDePago == {Null} \cup {Some(n) : n \in 1..5}

NextSemanal ==
    \/ \E f \in FormulariosSemanal :
            Len(gastos) < MaxGastosSemanal /\ AgregarGasto(f)
    \/ \E g \in GastoIds : desactivar_gasto_mensual(g)
    \/ \E g \in GastoIds, p \in Periodos, q \in Personas, m \in MontosPago,
          sem \in SemanasDePago :
            /\ BagCardinality(pagos) < MaxPagosSemanal
            /\ registrar_pago(g, p[1], p[2], q, m, sem)
    \/ \E fila \in BagToSet(pagos) : eliminar_pago(fila)
    \/ \E g \in GastoIds, p \in Periodos, q \in Personas :
            eliminar_pago_por_criterios(g, p[1], p[2], q)

SpecSemanal == Init /\ [][NextSemanal]_vars

----------------------------------------------------------------------------
(* SpecGrupo: expenses of variable amount and different frequencies, their *)
(* overrides for January 2024, and groups of either fixed payer.           *)

FormulariosGrupo ==
    {Formulario("Luz", 12000, fr, "variable", "50/50", 0, 50) :
        fr \in {"Semanal", "Anual"}}

NextGrupo ==
    \/ \E f \in FormulariosGrupo :
            Len(gastos) < MaxGastos /\ AgregarGasto(f)
    \/ \E g \in GastoIds : desactivar_gasto_mensual(g)
    \/ \E g \in GastoIds : establecer_monto_del_mes(g, 1, 2024, 24000)
    \/ \E q \in Personas, m \in MontosFijosGrupo, l \in ListasDeGastos :
            Len(grupos) < MaxGruposPago /\ crear_grupo_distribucion(q, m, l)
    \/ \E k \in GrupoIds : eliminar_grupo_distribucion(k)

SpecGrupo == Init /\ [][NextGrupo]_vars

----------------------------------------------------------------------------
(* SpecEliminar: one session on the payments: the month selector, payments *)
(* recorded for the selected month, and the delete tab's two buttons.      *)

NextEliminar ==
    \/ \E f \in FormulariosBasicos :
            Len(gastos) < MaxGastos /\ AgregarGasto(f)
    \/ \E p \in Periodos : SeleccionarMes(p)
    \/ \E g \in GastoIds, q \in Personas, m \in MontosPago :
            /\ BagCardinality(pagos) < MaxPagosEliminar
            /\ registrar_pago(g, mes_seleccionado[1], mes_seleccionado[2], q, m, Null)
    \/ \E fila \in obtener_pagos_del_mes(mes_seleccionado[1], mes_seleccionado[2]) :
            eliminar_pago(fila)
    \/ EliminarTodos

SpecEliminar == Init /\ [][NextEliminar]_vars

----------------------------------------------------------------------------
(* SpecSesiones: two sessions saving month amounts of variable expenses,   *)
(* each call in two steps, its SELECT and its write.                       *)

FormulariosVariables ==
    {Formulario("Luz", 12000, "Mensual", "variable", "50/50", 0, 50)}

NextSesiones ==
    \/ \E f \in FormulariosVariables :
            Len(gastos) < MaxGastosSesiones /\ AgregarGasto(f)
    \/ \E g \in GastoIds : desactivar_gasto_mensual(g)
    \/ \E s \in Sesiones, g \in GastoIds, p \in Periodos, m \in MontosDelMes :
            LeerMontoDelMes(s, g, p[1], p[2], m)
    \/ \E s \in Sesiones : EscribirMontoDelMes(s)

SpecSesiones == Init /\ [][NextSesiones]_vars

----------------------------------------------------------------------------
(* SpecMontoMes: variable expenses of two base amounts, added and edited,  *)
(* and the amounts saved for a month, 0.00 included.                       *)

FormulariosMontoMes ==
    {Formulario("Luz", mt, "Mensual", "variable", "50/50", 0, 50) :
        mt \in {12000, 36000}}

\* The amounts typed for a month: 0.00 and 60.00
MontosMontoMes == {0, 6000}

NextMontoMes ==
    \/ \E f \in FormulariosMontoMes :
            Len(gastos) < MaxGastos /\ AgregarGasto(f)
    \/ \E g \in GastoIds, f \in FormulariosMontoMes : EditarGasto(g, f)
    \/ \E g \in GastoIds : desactivar_gasto_mensual(g)
    \/ \E g \in GastoIds, p \in Periodos, m \in MontosMontoMes :
            establecer_monto_del_mes(g, p[1], p[2], m)

SpecMontoMes == Init /\ [][NextMontoMes]_vars

----------------------------------------------------------------------------
(* SpecLibro: the ledger of payments next to every operation on the        *)
(* expenses, their month amounts and their groups.                         *)

NextLibro ==
    \/ \E f \in FormulariosMontoMes :
            Len(gastos) < MaxGastosSesiones /\ AgregarGasto(f)
    \/ \E g \in GastoIds, f \in FormulariosMontoMes : EditarGasto(g, f)
    \/ \E g \in GastoIds : desactivar_gasto_mensual(g)
    \/ \E g \in GastoIds : establecer_monto_del_mes(g, 1, 2024, 6000)
    \/ \E m \in MontosFijosGrupo, l \in ListasDeGastos :
            Len(grupos) < MaxGruposPago /\ crear_grupo_distribucion("Ricardo", m, l)
    \/ \E k \in GrupoIds : eliminar_grupo_distribucion(k)
    \/ \E g \in GastoIds, p \in Periodos, q \in Personas, m \in MontosPago :
            /\ BagCardinality(pagos) < MaxPagos
            /\ registrar_pago(g, p[1], p[2], q, m, Null)
    \/ \E fila \in BagToSet(pagos) : eliminar_pago(fila)

SpecLibro == Init /\ [][NextLibro]_vars

----------------------------------------------------------------------------
(* SpecVerificar: payments with and without week number, recorded and      *)
(* deleted one by one.                                                     *)

NextVerificar ==
    \/ \E f \in FormulariosSemanal :
            Len(gastos) < MaxGastosSesiones /\ AgregarGasto(f)
    \/ \E g \in GastoIds, p \in Periodos, q \in Personas, m \in MontosPago,
          sem \in SemanasDePago :
            /\ BagCardinality(pagos) < MaxPagos
            /\ registrar_pago(g, p[1], p[2], q, m, sem)
    \/ \E fila \in BagToSet(pagos) : eliminar_pago(fila)

SpecVerificar == Init /\ [][NextVerificar]_vars

----------------------------------------------------------------------------
(* SpecCalendario: the month selector set to every month of a range of     *)
(* years.                                                                  *)

MesesDelCalendario == (1..12) \X (PrimerAnio..UltimoAnio)

NextCalendario == \E p \in MesesDelCalendario : SeleccionarMes(p)

SpecCalendario == Init /\ [][NextCalendario]_vars

----------------------------------------------------------------------------
(* SpecFrecuencia: expenses of every frequency over base amounts of 0.00   *)
(* (the edit form takes it), 12.00 and 120.00.                             *)

FormulariosFrecuencia ==
    {Formulario("Luz", mt, fr, "fijo", "50/50", 0, 50) :
        mt \in {0, 1200, 12000}, fr \in Frecuencias}

NextFrecuencia ==
    \/ \E f \in FormulariosFrecuencia :
            Len(gastos) < MaxGastos /\ AgregarGasto(f)
    \/ \E g \in GastoIds, f \in FormulariosFrecuencia : EditarGasto(g, f)
    \/ \E g \in GastoIds : desactivar_gasto_mensual(g)

SpecFrecuencia == Init /\ [][NextFrecuencia]_vars

----------------------------------------------------------------------------
(* SpecPartes: monthly and yearly expenses of every split rule, with the   *)
(* fixed contribution above the yearly expense's monthly total and the     *)
(* slider at its ends, and groups of either fixed payer.                   *)

FormulariosPartes ==
    {Formulario("Luz", 12000, fr, "fijo", td, 10000, 50) :
        fr \in {"Mensual", "Anual"}, td \in TiposDistribucionForm \ {"personalizado"}}
    \cup {Formulario("Luz", 12000, fr, "fijo", "personalizado", 0, pc) :
            fr \in {"Mensual", "Anual"}, pc \in {0, 100}}

NextPartes ==
    \/ \E f \in FormulariosPartes :
            Len(gastos) < MaxGastosSesiones /\ AgregarGasto(f)
    \/ \E g \in GastoIds, f \in FormulariosPartes : EditarGasto(g, f)
    \/ \E g \in GastoIds : desactivar_gasto_mensual(g)
    \/ \E q \in Personas, m \in MontosFijosGrupo, l \in ListasDeGastos :
            Len(grupos) < MaxGruposPago /\ crear_grupo_distribucion(q, m, l)
    \/ \E k \in GrupoIds : eliminar_grupo_distribucion(k)

SpecPartes == Init /\ [][NextPartes]_vars

----------------------------------------------------------------------------
(* SpecSaldo: payments of two amounts recorded and deleted for expenses    *)
(* that are added and soft-deleted.                                        *)

\* The amounts paid: 10.00 and 60.00
MontosSaldo == {1000, 6000}

NextSaldo ==
    \/ \E f \in FormulariosBasicos :
            Len(gastos) < MaxGastosSesiones /\ AgregarGasto(f)
    \/ \E g \in GastoIds : desactivar_gasto_mensual(g)
    \/ \E g \in GastoIds, p \in Periodos, q \in Personas, m \in MontosSaldo :
            /\ BagCardinality(pagos) < MaxPagosEliminar
            /\ registrar_pago(g, p[1], p[2], q, m, Null)
    \/ \E fila \in BagToSet(pagos) : eliminar_pago(fila)

SpecSaldo == Init /\ [][NextSaldo]_vars

----------------------------------------------------------------------------
(* SpecCrearGrupo: groups created from lists of expense ids, repeats       *)
(* included, and every other operation on groups and their members.        *)

NextCrearGrupo ==
    \/ \E f \in FormulariosBasicos :
            Len(gastos) < MaxGastos /\ AgregarGasto(f)
    \/ \E q \in Personas, m \in MontosFijosGrupo, l \in ListasDeGastos :
            Len(grupos) < MaxGruposPago /\ crear_grupo_distribucion(q, m, l)
    \/ \E g \in GastoIds : desactivar_gasto_mensual(g)
    \/ \E k \in GrupoIds, g \in GastoIds : agregar_gasto_a_grupo(k, g)
    \/ \E k \in GrupoIds, g \in GastoIds : remover_gasto_de_grupo(k, g)
    \/ \E k \in GrupoIds : eliminar_grupo_distribucion(k)

SpecCrearGrupo == Init /\ [][NextCrearGrupo]_vars

----------------------------------------------------------------------------
(* SpecPeriodos: payments of three periods, two months of one year and the *)
(* first of them a year later, recorded, deleted one by one and deleted by *)
(* key.                                                                    *)

FormulariosPeriodos == FormulariosBasicos \cup FormulariosSemanal

PeriodosDePago == Periodos \cup {<<1, 2025>>}

SemanasDePeriodos == {Null, Some(1)}

NextPeriodos ==
    \/ \E f \in FormulariosPeriodos :
            Len(gastos) < MaxGastosSesiones /\ AgregarGasto(f)
    \/ \E g \in GastoIds, p \in PeriodosDePago, q \in Personas, m \in MontosPago,
          sem \in SemanasDePeriodos :
            /\ BagCardinality(pagos) < MaxPagos
            /\ registrar_pago(g, p[1], p[2], q, m, sem)
    \/ \E fila \in BagToSet(pagos) : eliminar_pago(fila)
    \/ \E g \in GastoIds, p \in PeriodosDePago, q \in Personas :
            eliminar_pago_por_criterios(g, p[1], p[2], q)

SpecPeriodos == Init /\ [][NextPeriodos]_vars

----------------------------------------------------------------------------
(* SpecPagar: one session on the 'Pagar Gastos' tab: expenses added and    *)
(* edited, the month selector, the pay buttons, and payments deleted in    *)
(* the delete tab.                                                         *)

FormulariosPagar ==
    {Formulario("Mercado", 12000, "Semanal", "fijo", "50/50", 0, 50),
     Formulario("Renta", 12000, "Mensual", "fijo", "fijo_ricardo", 7000, 50)}

NextPagar ==
    \/ \E f \in FormulariosPagar :
            Len(gastos) < MaxGastosSesiones /\ AgregarGasto(f)
    \/ \E g \in GastoIds, f \in FormulariosPagar : EditarGasto(g, f)
    \/ \E p \in Periodos : SeleccionarMes(p)
    \/ \E g \in GastoIds, q \in Personas :
            BagCardinality(pagos) < MaxPagos /\ PagarGasto(g, q)
    \/ \E g \in GastoIds, q \in Personas, n \in 1..5 :
            BagCardinality(pagos) < MaxPagos /\ PagarSemana(g, q, n)
    \/ \E fila \in obtener_pagos_del_mes(mes_seleccionado[1], mes_seleccionado[2]) :
            eliminar_pago(fila)

SpecPagar == Init /\ [][NextPagar]_vars

----------------------------------------------------------------------------
(* SpecFormularios: the add form and the edit form submitted with values   *)
(* that pass the add form's checks and with values that do not: a fixed    *)
(* amount above the base amount, an empty label, a base amount of 0.       *)

FormulariosValidar ==
    {Formulario("Renta", mt, "Mensual", "fijo", td, 7000, 50) :
        mt \in {6000, 12000}, td \in {"fijo_ricardo", "fijo_wendy"}}
    \cup {Formulario("", 12000, "Mensual", "fijo", "50/50", 0, 50),
          Formulario("Renta", 0, "Mensual", "fijo", "50/50", 0, 50)}

NextFormularios ==
    \/ \E f \in FormulariosValidar :
            Len(gastos) < MaxGastos /\ AgregarGasto(f)
    \/ \E g \in GastoIds, f \in FormulariosValidar : EditarGasto(g, f)
    \/ \E g \in GastoIds : desactivar_gasto_mensual(g)

SpecFormularios == Init /\ [][NextFormularios]_vars

----------------------------------------------------------------------------
(* Statement rows and groups *)

FilasDeGrupo(mes, anio) ==
    {r \in calcular_tabla_mensual(mes, anio) : r.id[1] = "grupo"}

FilasDeGasto(mes, anio) ==
    {r \in calcular_tabla_mensual(mes, anio) : r.id[1] = "gasto"}

\* The active groups that hold the expense
GruposActivosDe(gasto_id) ==
    {k \in GruposActivos : <<k, gasto_id>> \in gastos_en_grupo}

\* Some row of the ledger is a payment by quien for the expense in the month
HayPago(gasto_id, mes, anio, quien) ==
    \E f \in DOMAIN pagos :
        /\ f.gasto_id = gasto_id /\ f.mes = mes /\ f.anio = anio
        /\ f.quien_pago = quien

\* The active expenses that are members of the group
MiembrosActivos(grupo_id) ==
    {g \in GastoIds : gastos[g].activo = 1 /\ <<grupo_id, g>> \in gastos_en_grupo}

\* The fixed amount a row's split rule is configured with, or Null when the
\* row is not split by a fixed contribution
FijoDeFila(r) ==
    IF r.id[1] = "grupo"
    THEN LET grupo == grupos[r.id[2]]
         IN  IF grupo.quien_paga_fijo = "Ricardo" THEN grupo.monto_fijo_ricardo
             ELSE grupo.monto_fijo_wendy
    ELSE LET gasto == gastos[r.id[2]]
         IN  IF gasto.tipo_distribucion = "fijo_ricardo" THEN gasto.monto_fijo_ricardo
             ELSE IF gasto.tipo_distribucion = "fijo_wendy" THEN gasto.monto_fijo_wendy
             ELSE Null

\* The person a row's fixed contribution is configured for
PagadorFijoDeFila(r) ==
    IF r.id[1] = "grupo" THEN grupos[r.id[2]].quien_paga_fijo
    ELSE IF gastos[r.id[2]].tipo_distribucion = "fijo_ricardo" THEN "Ricardo"
    ELSE "Wendy"

\* C1: in every row of the monthly statement the amounts owed by Ricardo and
\* by Wendy add up to the row's monthly total; when the configured fixed
\* amount exceeds the total, the fixed payer owes the total and the other 0.
C1_SumaIgualAlTotal ==
    \A p \in Periodos : \A r \in calcular_tabla_mensual(p[1], p[2]) :
        /\ r.DebeRicardo + r.DebeWendy = r.MontoTotal
        /\ (FijoDeFila(r) # Null /\ FijoDeFila(r)[1] > r.MontoTotal) =>
              IF PagadorFijoDeFila(r) = "Ricardo"
              THEN r.DebeRicardo = r.MontoTotal /\ r.DebeWendy = 0
              ELSE r.DebeWendy = r.MontoTotal /\ r.DebeRicardo = 0

\* C2: for an expense split by percentage with a configured percentage pc,
\* calcular_distribucion_pago gives Ricardo total * pc / 100 and Wendy the
\* rest of the total, for pc = 0 and pc = 100 as for any other.
C2_PorcentajeConfigurado ==
    \A g \in GastoIds : \A p \in Periodos :
        (gastos[g].tipo_distribucion = "personalizado"
            /\ gastos[g].porcentaje_ricardo # Null) =>
        LET total == calcular_monto_mensual_segun_frecuencia(
                        gastos[g].monto_total, gastos[g].frecuencia, p[1], p[2])
            de_ricardo == (total * gastos[g].porcentaje_ricardo[1]) \div 100
        IN  calcular_distribucion_pago(gastos[g], total)
                = <<de_ricardo, total - de_ricardo>>

\* C3: for every month the total owed by each person in the net balance is
\* the sum of that person's owed share over the rows of the month's statement.
C3_SaldoIgualASumaDeFilas ==
    \A p \in Periodos :
        LET tabla == calcular_tabla_mensual(p[1], p[2])
            saldo == calcular_saldo_neto(p[1], p[2])
        IN  /\ saldo.total_debe_cada_uno = SumF([r \in tabla |-> r.DebeRicardo], tabla)
            /\ saldo.total_debe_cada_uno = SumF([r \in tabla |-> r.DebeWendy], tabla)

\* The amount of an expense for a month by the store's rule: the base amount
\* for kind 'fijo'; for kind 'variable' the month's override, else the base
MontoSegunTipo(gasto_id, mes, anio) ==
    LET filas == {m \in montos_mensuales :
                    m.gasto_id = gasto_id /\ m.mes = mes /\ m.anio = anio}
    IN  IF gastos[gasto_id].tipo_monto = "variable" /\ filas # {}
        THEN (CHOOSE m \in filas : TRUE).monto_total
        ELSE gastos[gasto_id].monto_total

\* C4: an expense of kind 'fijo' enters the statement with its base amount,
\* whatever override rows exist: in its own row, and in the total of a group
\* row it is summed into.
C4_FijoUsaMontoBase ==
    \A p \in Periodos :
        /\ \A r \in FilasDeGasto(p[1], p[2]) :
              gastos[r.id[2]].tipo_monto = "fijo" =>
                r.MontoTotal = calcular_monto_mensual_segun_frecuencia(
                    gastos[r.id[2]].monto_total, gastos[r.id[2]].frecuencia, p[1], p[2])
        /\ \A r \in FilasDeGrupo(p[1], p[2]) :
              r.MontoTotal =
                SumF([g \in MiembrosActivos(r.id[2]) |->
                        calcular_monto_mensual_segun_frecuencia(
                            MontoSegunTipo(g, p[1], p[2]), gastos[g].frecuencia, p[1], p[2])],
                     MiembrosActivos(r.id[2]))

\* Some row of the ledger is a payment by quien for week n of the expense
HayPagoDeSemana(gasto_id, mes, anio, quien, n) ==
    \E f \in DOMAIN pagos :
        /\ f.gasto_id = gasto_id /\ f.mes = mes /\ f.anio = anio
        /\ f.quien_pago = quien /\ f.semana = Some(n)

\* C5: the row of a weekly expense shows a person as paid exactly when that
\* person has a payment for every week 1..N of the month.
C5_SemanalPagadoSiiTodasLasSemanas ==
    \A p \in Periodos : \A r \in FilasDeGasto(p[1], p[2]) :
        r.Frecuencia = "Semanal" =>
            /\ r.RicardoPago <=>
                \A n \in 1..calcular_semanas_del_mes(p[1], p[2]) :
                    HayPagoDeSemana(r.id[2], p[1], p[2], "Ricardo", n)
            /\ r.WendyPago <=>
                \A n \in 1..calcular_semanas_del_mes(p[1], p[2]) :
                    HayPagoDeSemana(r.id[2], p[1], p[2], "Wendy", n)

\* C6: obtener_semanas_pagadas is the strictly ascending list of the week
\* numbers that have a payment for the key: each once, none without a week.
C6_SemanasDistintasEnOrden ==
    \A g \in GastoIds : \A p \in Periodos : \A q \in Personas :
        LET l == obtener_semanas_pagadas(g, p[1], p[2], q)
        IN  /\ \A i, j \in 1..Len(l) : i < j => l[i] < l[j]
            /\ {l[i] : i \in 1..Len(l)}
                = {n \in 1..5 : HayPagoDeSemana(g, p[1], p[2], q, n)}

\* C7: for every month the statement has exactly one row per active group and
\* exactly one row per active expense that is in no active group, and no other
\* row (none for a member of an active group, none for anything inactive).
C7_UnaFilaPorGrupoYGasto ==
    \A p \in Periodos :
        LET tabla == calcular_tabla_mensual(p[1], p[2])
            esperadas ==
                {<<"grupo", k>> : k \in GruposActivos}
                \cup {<<"gasto", g>> : g \in {x \in GastosActivos : GruposActivosDe(x) = {}}}
        IN  /\ {r.id : r \in tabla} = esperadas
            /\ Cardinality(tabla) = Cardinality(esperadas)

\* C8: every expense is a member of at most one active group.
C8_ALoSumoUnGrupoActivo ==
    \A g \in GastoIds : Cardinality(GruposActivosDe(g)) <= 1

\* C9: an expense's distribution kind is 'agrupado' exactly when the expense
\* is a member of an active group.
C9_AgrupadoSiiEnGrupoActivo ==
    \A g \in GastoIds :
        (gastos[g].tipo_distribucion = "agrupado") <=> (GruposActivosDe(g) # {})

\* C10: in a group's row of a month, a person's paid flag is true exactly when
\* the ledger holds a payment by that person in that month for every active
\* member of the group; the two flags are decided separately.
C10_GrupoPagadoSiiTodosLosMiembros ==
    \A p \in Periodos : \A r \in FilasDeGrupo(p[1], p[2]) :
        /\ r.RicardoPago <=>
              \A g \in MiembrosActivos(r.id[2]) : HayPago(g, p[1], p[2], "Ricardo")
        /\ r.WendyPago <=>
              \A g \in MiembrosActivos(r.id[2]) : HayPago(g, p[1], p[2], "Wendy")

\* A group row of two active members where Ricardo has paid both (flag set)
\* and Wendy none (flag clear)
C10_Witness ==
    \E p \in Periodos : \E r \in FilasDeGrupo(p[1], p[2]) :
        /\ Cardinality(MiembrosActivos(r.id[2])) >= 2
        /\ r.RicardoPago /\ ~r.WendyPago
        /\ \A g \in MiembrosActivos(r.id[2]) : HayPago(g, p[1], p[2], "Ricardo")

\* The amount the override store gives for an expense and month: the month's
\* override row if there is one, else the base amount
MontoGuardado(gasto_id, mes, anio) ==
    LET filas == {m \in montos_mensuales :
                    m.gasto_id = gasto_id /\ m.mes = mes /\ m.anio = anio}
    IN  IF filas # {} THEN (CHOOSE m \in filas : TRUE).monto_total
        ELSE gastos[gasto_id].monto_total

\* C11: a group row's total is the sum over the group's active members of the
\* member's stored amount for the month converted by its frequency, and the
\* split is taken once on that total: the fixed payer owes the group's fixed
\* amount, the other person max(0, total - fixed).
C11_TotalYRepartoDeGrupo ==
    \A p \in Periodos : \A r \in FilasDeGrupo(p[1], p[2]) :
        LET k == r.id[2]
            total == SumF([g \in MiembrosActivos(k) |->
                            calcular_monto_mensual_segun_frecuencia(
                                MontoGuardado(g, p[1], p[2]),
                                gastos[g].frecuencia, p[1], p[2])],
                          MiembrosActivos(k))
            fijo == IF FijoDeFila(r) = Null THEN 0 ELSE FijoDeFila(r)[1]
            resto == IF total - fijo > 0 THEN total - fijo ELSE 0
        IN  /\ r.MontoTotal = total
            /\ IF grupos[k].quien_paga_fijo = "Ricardo"
               THEN r.DebeRicardo = fijo /\ r.DebeWendy = resto
               ELSE r.DebeWendy = fijo /\ r.DebeRicardo = resto

\* A group row of two active members of different monthly amounts, one of
\* them overridden for the month, whose total exceeds the fixed amount
C11_Witness ==
    \E p \in Periodos : \E r \in FilasDeGrupo(p[1], p[2]) :
        \E g, h \in MiembrosActivos(r.id[2]) :
            /\ gastos[g].frecuencia # gastos[h].frecuencia
            /\ MontoGuardado(g, p[1], p[2]) # gastos[g].monto_total
            /\ r.MontoTotal > FijoDeFila(r)[1]
            /\ r.DebeWendy = FijoDeFila(r)[1]
            /\ r.DebeRicardo = r.MontoTotal - FijoDeFila(r)[1]

\* C12: a click on 'Eliminar Todos' made while no confirmation is pending
\* deletes no payment of any month and only arms the confirmation.
C12_PrimerClicSoloArma ==
    [][(EliminarTodos /\ ~confirmar_eliminar_todos) =>
            (pagos' = pagos /\ confirmar_eliminar_todos' /\ eliminados' = eliminados)]_vars

\* The confirmation is pending, payments of both months are in the ledger and
\* no bulk deletion has happened
C12_Witness ==
    /\ confirmar_eliminar_todos
    /\ eliminados = Null
    /\ \A p \in Periodos : FilasDelMes(p[1], p[2]) > 0

\* C13: the confirming click deletes every payment of the selected month,
\* leaves the rows of every other month as they are, hands the number of
\* deleted rows to the message and clears the pending confirmation.
C13_SegundoClicEliminaElMes ==
    [][(EliminarTodos /\ confirmar_eliminar_todos) =>
        /\ \A f \in DOMAIN pagos' :
                ~(f.mes = mes_seleccionado[1] /\ f.anio = mes_seleccionado[2])
        /\ \A f \in DOMAIN pagos :
                ~(f.mes = mes_seleccionado[1] /\ f.anio = mes_seleccionado[2])
                    => (f \in DOMAIN pagos' /\ pagos'[f] = pagos[f])
        /\ DOMAIN pagos' \subseteq DOMAIN pagos
        /\ eliminados' = Some(BagCardinality(pagos) - BagCardinality(pagos'))
        /\ ~confirmar_eliminar_todos']_vars

\* A confirmed bulk deletion of two rows has left the other month's payment
C13_Witness ==
    /\ eliminados = Some(2)
    /\ ~confirmar_eliminar_todos
    /\ FilasDelMes(mes_seleccionado[1], mes_seleccionado[2]) = 0
    /\ pagos # EmptyBag

\* The rows of the override table for a key
FilasDeClave(tabla, gasto_id, mes, anio) ==
    {m \in tabla : m.gasto_id = gasto_id /\ m.mes = mes /\ m.anio = anio}

\* C14: the override table never holds two rows for one (expense, month,
\* year), however the calls of two sessions interleave between their SELECT
\* and their write; a call whose write is refused returns False and leaves
\* the table as it was, and every other call returns True.
C14_UnaFilaPorClave ==
    /\ [](\A m1, m2 \in montos_mensuales :
            (m1.gasto_id = m2.gasto_id /\ m1.mes = m2.mes /\ m1.anio = m2.anio)
                => m1 = m2)
    /\ [][\A s \in Sesiones : EscribirMontoDelMes(s) =>
            LET c == llamadas[s]
                rechazada ==
                    ~c.existe /\ FilasDeClave(montos_mensuales, c.gasto_id, c.mes, c.anio) # {}
            IN  IF rechazada
                THEN llamadas'[s].retorno = FALSE /\ montos_mensuales' = montos_mensuales
                ELSE /\ llamadas'[s].retorno = TRUE
                     /\ \A m \in FilasDeClave(montos_mensuales', c.gasto_id, c.mes, c.anio) :
                            m.monto_total = c.monto
                     /\ FilasDeClave(montos_mensuales', c.gasto_id, c.mes, c.anio) # {}]_vars

\* Two sessions read the same key before either wrote; one has inserted its
\* row and the other's insert was refused and returned False
C14_Witness ==
    /\ llamadas["s1"].estado = "terminado" /\ llamadas["s1"].retorno = TRUE
    /\ llamadas["s2"].estado = "terminado" /\ llamadas["s2"].retorno = FALSE
    /\ Cardinality(montos_mensuales) = 1

\* The step is a save of some amount for the key
SeEstablece(gasto_id, mes, anio) ==
    \E m \in MontosMontoMes : establecer_monto_del_mes(gasto_id, mes, anio, m)

\* C15: obtener_monto_del_mes gives the amount of the latest save for exactly
\* that (expense, month, year), and the base amount while there was none: a
\* key without a row reads as the base amount; a save of m makes its key read
\* m and changes neither the reading of any other key nor any expense; a step
\* that is not a save for a key with a row leaves that key's reading.
C15_UltimoMontoEstablecido ==
    /\ [](\A g \in GastoIds : \A p \in Periodos :
            FilasDeClave(montos_mensuales, g, p[1], p[2]) = {}
                => obtener_monto_del_mes(g, p[1], p[2]) = gastos[g].monto_total)
    /\ [][\A g \in GastoIds : \A p \in Periodos :
            /\ \A m \in MontosMontoMes :
                    establecer_monto_del_mes(g, p[1], p[2], m) =>
                        /\ obtener_monto_del_mes(g, p[1], p[2])' = m
                        /\ gastos' = gastos
                        /\ \A h \in GastoIds : \A q \in Periodos :
                                (h # g \/ q # p) =>
                                    obtener_monto_del_mes(h, q[1], q[2])'
                                        = obtener_monto_del_mes(h, q[1], q[2])
            /\ (~SeEstablece(g, p[1], p[2])
                    /\ FilasDeClave(montos_mensuales, g, p[1], p[2]) # {}) =>
                    obtener_monto_del_mes(g, p[1], p[2])'
                        = obtener_monto_del_mes(g, p[1], p[2])]_vars

\* An expense whose base amount was edited to 360.00, with 0.00 saved for
\* January 2024 and nothing for February: January reads 0.00, February the base
C15_Witness ==
    \E g \in GastoIds :
        /\ FilasDeClave(montos_mensuales, g, 1, 2024) # {}
        /\ FilasDeClave(montos_mensuales, g, 2, 2024) = {}
        /\ obtener_monto_del_mes(g, 1, 2024) = 0
        /\ obtener_monto_del_mes(g, 2, 2024) = 36000
        /\ \E h \in GastoIds : h # g /\ obtener_monto_del_mes(h, 1, 2024) = 6000

\* The step deletes a row of the ledger
SeEliminaUnPago == \E fila \in DOMAIN pagos : eliminar_pago(fila)

\* C16: registrar_pago adds exactly one row to the ledger and changes no row
\* that was there, and verificar_pago_existente is true for its key right
\* after it; once true for a key, it stays true through every step that is
\* not a deletion of a payment.
C16_PagoRegistradoPermanece ==
    [][\A g \in GastoIds : \A p \in Periodos : \A q \in Personas :
        /\ \A m \in MontosPago :
                registrar_pago(g, p[1], p[2], q, m, Null) =>
                    /\ verificar_pago_existente(g, p[1], p[2], q, Null)'
                    /\ BagCardinality(pagos') = BagCardinality(pagos) + 1
                    /\ \A f \in DOMAIN pagos :
                            f \in DOMAIN pagos' /\ pagos'[f] >= pagos[f]
        /\ (verificar_pago_existente(g, p[1], p[2], q, Null) /\ ~SeEliminaUnPago)
                => verificar_pago_existente(g, p[1], p[2], q, Null)']_vars

\* Two rows of the same key in the ledger, their expense soft-deleted, and
\* the key still reads as paid
C16_Witness ==
    \E f \in DOMAIN pagos :
        /\ pagos[f] = 2
        /\ gastos[f.gasto_id].activo = 0
        /\ verificar_pago_existente(f.gasto_id, f.mes, f.anio, f.quien_pago, Null)

\* C17: with a week number verificar_pago_existente is true exactly when the
\* ledger has a row of the key with that week number; without one, exactly
\* when the ledger has a row of the key, whatever its week or with none.
C17_VerificarPorSemana ==
    \A g \in GastoIds : \A p \in Periodos : \A q \in Personas :
        /\ \A n \in 1..5 :
                verificar_pago_existente(g, p[1], p[2], q, Some(n))
                    <=> HayPagoDeSemana(g, p[1], p[2], q, n)
        /\ verificar_pago_existente(g, p[1], p[2], q, Null)
                <=> HayPago(g, p[1], p[2], q)

\* Ricardo's only payment of the month is for week 2 and Wendy's only one
\* has no week: week 2 reads as paid by Ricardo and week 1 does not, no week
\* reads as paid by Wendy, and without a week both read as paid
C17_Witness ==
    \E g \in GastoIds : \E p \in Periodos :
        /\ verificar_pago_existente(g, p[1], p[2], "Ricardo", Some(2))
        /\ ~verificar_pago_existente(g, p[1], p[2], "Ricardo", Some(1))
        /\ verificar_pago_existente(g, p[1], p[2], "Ricardo", Null)
        /\ verificar_pago_existente(g, p[1], p[2], "Wendy", Null)
        /\ \A n \in 1..5 : ~verificar_pago_existente(g, p[1], p[2], "Wendy", Some(n))

\* The Mondays of a month, as days of the month
LunesDelMes(mes, anio) ==
    {d \in 1..DiasDelMes(mes, anio) : Weekday(anio, mes, d) = 0}

\* C18: for the selected month, whatever its length and the weekday of its
\* first day, calcular_semanas_del_mes is the number of Mondays in the month,
\* which is 4 or 5 and never 0: the first Monday is never after the last
\* day.  February 2024 has 4 weeks, January 2024 has 5.
C18_CuatroOCincoSemanas ==
    LET mes == mes_seleccionado[1]
        anio == mes_seleccionado[2]
    IN  /\ calcular_semanas_del_mes(mes, anio) \in {4, 5}
        /\ calcular_semanas_del_mes(mes, anio) = Cardinality(LunesDelMes(mes, anio))
        /\ PrimerLunes(mes, anio) <= DiasDelMes(mes, anio)
        /\ calcular_semanas_del_mes(2, 2024) = 4
        /\ calcular_semanas_del_mes(1, 2024) = 5

\* The selected month is a February of 28 days whose first day is a Tuesday:
\* its fourth Monday is its last day
C18_Witness ==
    /\ mes_seleccionado[1] = 2
    /\ DiasDelMes(mes_seleccionado[1], mes_seleccionado[2]) = 28
    /\ Weekday(mes_seleccionado[2], mes_seleccionado[1], 1) = 1
    /\ calcular_semanas_del_mes(mes_seleccionado[1], mes_seleccionado[2]) = 4

\* C19: for an expense's base amount and frequency and a month,
\* calcular_monto_mensual_segun_frecuencia is the base amount itself for
\* 'Mensual', twice it for 'Quincenal', a twelfth of it for 'Anual' and the
\* base amount times the number of Mondays of the month for 'Semanal', and
\* is never negative.
C19_MontoSegunFrecuencia ==
    \A g \in GastoIds : \A p \in Periodos :
        LET base == gastos[g].monto_total
            fr == gastos[g].frecuencia
            r == calcular_monto_mensual_segun_frecuencia(base, fr, p[1], p[2])
        IN  /\ r >= 0
            /\ fr = "Mensual" => r = base
            /\ fr = "Quincenal" => r = base + base
            /\ fr = "Anual" => r * 12 = base
            /\ fr = "Semanal" => r = base * Cardinality(LunesDelMes(p[1], p[2]))

\* A weekly expense of 120.00 (600.00 in January 2024, 480.00 in February),
\* next to a fortnightly one of 12.00 (24.00 a month)
C19_Witness ==
    \E g, h \in GastoIds :
        /\ gastos[g].frecuencia = "Semanal"
        /\ calcular_monto_mensual_segun_frecuencia(
                gastos[g].monto_total, gastos[g].frecuencia, 1, 2024) = 60000
        /\ calcular_monto_mensual_segun_frecuencia(
                gastos[g].monto_total, gastos[g].frecuencia, 2, 2024) = 48000
        /\ gastos[h].frecuencia = "Quincenal"
        /\ calcular_monto_mensual_segun_frecuencia(
                gastos[h].monto_total, gastos[h].frecuencia, 1, 2024) = 2400

\* C20: both shares calcular_distribucion_pago gives for an expense and its
\* monthly total are at least 0, and so are both shares of every row of the
\* statement, group rows included.
C20_PartesNoNegativas ==
    \A p \in Periodos :
        /\ \A g \in GastoIds :
              LET total == calcular_monto_mensual_segun_frecuencia(
                              gastos[g].monto_total, gastos[g].frecuencia, p[1], p[2])
                  dist == calcular_distribucion_pago(gastos[g], total)
              IN  total >= 0 /\ dist[1] >= 0 /\ dist[2] >= 0
        /\ \A r \in calcular_tabla_mensual(p[1], p[2]) :
              r.MontoTotal >= 0 /\ r.DebeRicardo >= 0 /\ r.DebeWendy >= 0

\* A row whose fixed contribution is above its total, the other share 0
C20_Witness ==
    \E p \in Periodos : \E r \in calcular_tabla_mensual(p[1], p[2]) :
        /\ FijoDeFila(r) # Null
        /\ FijoDeFila(r)[1] > r.MontoTotal
        /\ r.DebeRicardo = 0 \/ r.DebeWendy = 0

\* What the net balance reports as paid by a person for a month
PagadoPor(mes, anio, quien) ==
    IF quien = "Ricardo" THEN calcular_saldo_neto(mes, anio).pagado_ricardo
    ELSE calcular_saldo_neto(mes, anio).pagado_wendy

\* C21: in the net balance of a month a person's total paid is the sum of
\* the amounts of all the payments the person recorded for that month,
\* whatever their expense: it is 0 on an empty ledger, grows by the amount of
\* every payment recorded, shrinks by the amount of every payment deleted
\* and changes in no other step; the pending amount is the owed amount minus
\* the paid one, negative when the person overpaid.
C21_PagadoYSaldo ==
    /\ [](\A p \in Periodos :
            LET saldo == calcular_saldo_neto(p[1], p[2])
            IN  /\ saldo.saldo_ricardo = saldo.total_debe_cada_uno - saldo.pagado_ricardo
                /\ saldo.saldo_wendy = saldo.total_debe_cada_uno - saldo.pagado_wendy
                /\ pagos = EmptyBag =>
                        (saldo.pagado_ricardo = 0 /\ saldo.pagado_wendy = 0))
    /\ [][\A p \in Periodos : \A q \in Personas :
            LET antes == PagadoPor(p[1], p[2], q)
                despues == PagadoPor(p[1], p[2], q)'
                registrados ==
                    {f \in DOMAIN pagos' :
                        IF f \in DOMAIN pagos THEN pagos'[f] > pagos[f] ELSE TRUE}
                eliminados_ ==
                    {f \in DOMAIN pagos :
                        IF f \in DOMAIN pagos' THEN pagos'[f] < pagos[f] ELSE TRUE}
                delMes(f) == f.mes = p[1] /\ f.anio = p[2] /\ f.quien_pago = q
            IN  /\ (\E f \in registrados : delMes(f)) =>
                        despues = antes + (CHOOSE f \in registrados : TRUE).monto_pagado
                /\ (\E f \in eliminados_ : delMes(f)) =>
                        despues = antes - (CHOOSE f \in eliminados_ : TRUE).monto_pagado
                /\ (~(\E f \in registrados : delMes(f))
                        /\ ~(\E f \in eliminados_ : delMes(f))) => despues = antes]_vars

\* Ricardo has paid 10.00 and 60.00 for an expense that is now soft-deleted:
\* nothing is owed, 70.00 is paid and the pending amount is -70.00
C21_Witness ==
    \E p \in Periodos :
        LET saldo == calcular_saldo_neto(p[1], p[2])
        IN  /\ GastosActivos = {}
            /\ saldo.total_debe_cada_uno = 0
            /\ saldo.pagado_ricardo = 7000
            /\ saldo.saldo_ricardo = 0 - 7000


\* C22: crear_grupo_distribucion is all or nothing. A call whose list repeats
\* an expense id returns None; a call that returns None leaves the group
\* table, the memberships and every expense as they were; a call that returns
\* an id has added that group's row, one membership per listed expense, and
\* marked each of them 'agrupado'.
C22_TodoONada ==
    [][\A q \in Personas : \A m \in MontosFijosGrupo : \A l \in ListasDeGastos :
        crear_grupo_distribucion(q, m, l) =>
            /\ TieneRepetidos(l) => retorno_crear_grupo'.valor = Null
            /\ IF retorno_crear_grupo'.valor = Null
               THEN UNCHANGED <<gastos, grupos, gastos_en_grupo>>
               ELSE /\ retorno_crear_grupo'.valor = Some(Len(grupos) + 1)
                    /\ Len(grupos') = Len(grupos) + 1
                    /\ \A i \in 1..Len(l) :
                            /\ <<Len(grupos) + 1, l[i]>> \in gastos_en_grupo'
                            /\ gastos'[l[i]].tipo_distribucion = "agrupado"]_vars

\* The last call returned None, and the store has no group, no membership
\* and no expense marked 'agrupado'
C22_Witness ==
    /\ retorno_crear_grupo = Retorno(Null)
    /\ Len(gastos) >= 2
    /\ grupos = <<>>
    /\ gastos_en_grupo = {}
    /\ \A g \in GastoIds : gastos[g].tipo_distribucion # "agrupado"


\* A step that records or deletes payments of period p and of no other
\* period: the ledger changes, and only in rows of p
PagoDelPeriodo(p) ==
    /\ pagos' # pagos
    /\ \A fila \in DOMAIN pagos \cup DOMAIN pagos' :
            CopiesIn(fila, pagos') # CopiesIn(fila, pagos) =>
                fila.mes = p[1] /\ fila.anio = p[2]

\* The paid flags of the statement of a period, row by row
PagadoEnTabla(p) ==
    {<<fila.id, fila.RicardoPago, fila.WendyPago>> :
        fila \in calcular_tabla_mensual(p[1], p[2])}

\* C23: payments are scoped to their month and year. In a period without a
\* payment every row of the statement shows both persons as not paid; and a
\* step that records or deletes payments of one period changes, for every
\* other period, neither verificar_pago_existente, nor
\* obtener_semanas_pagadas, nor a paid flag of the statement.
C23_PagosPorPeriodo ==
    /\ [](\A p \in PeriodosDePago :
            FilasDelMes(p[1], p[2]) = 0 =>
                \A fila \in calcular_tabla_mensual(p[1], p[2]) :
                    ~fila.RicardoPago /\ ~fila.WendyPago)
    /\ [][\A p \in PeriodosDePago :
            PagoDelPeriodo(p) =>
                \A o \in PeriodosDePago \ {p} :
                    /\ PagadoEnTabla(o)' = PagadoEnTabla(o)
                    /\ \A g \in GastoIds : \A q \in Personas :
                            /\ obtener_semanas_pagadas(g, o[1], o[2], q)' =
                                    obtener_semanas_pagadas(g, o[1], o[2], q)
                            /\ \A sem \in SemanasDePeriodos :
                                    verificar_pago_existente(g, o[1], o[2], q, sem)' =
                                        verificar_pago_existente(g, o[1], o[2], q, sem)]_vars

\* January 2024 has a row paid by Ricardo, February 2024 has rows and no
\* payment, and January 2025 has a payment
C23_Witness ==
    /\ \E fila \in calcular_tabla_mensual(1, 2024) : fila.RicardoPago
    /\ calcular_tabla_mensual(2, 2024) # {}
    /\ FilasDelMes(2, 2024) = 0
    /\ FilasDelMes(1, 2025) > 0


\* The pagos row that a step has added, if it has added exactly one
FilaNueva(fila) ==
    /\ fila \in DOMAIN pagos'
    /\ CopiesIn(fila, pagos') = CopiesIn(fila, pagos) + 1
    /\ BagCardinality(pagos') = BagCardinality(pagos) + 1

\* What the statement of the selected month shows as owed by the person in
\* the row of an expense
DebeEnTabla(gasto_id, persona) ==
    LET fila == FilaGasto(gasto_id, mes_seleccionado[1], mes_seleccionado[2])
    IN  IF persona = "Ricardo" THEN fila.DebeRicardo ELSE fila.DebeWendy

\* C24: the amount recorded by a pay button of the 'Pagar Gastos' tab for an
\* expense with a row of its own in the statement is what that row shows as
\* owed by the person; for a weekly expense, that amount divided by the
\* number of weeks of the month.
C24_MontoPagadoEsLaParte ==
    [][\A g \in GastosConFila : \A q \in Personas :
        /\ PagarGasto(g, q) =>
                \E fila \in DOMAIN pagos' :
                    /\ FilaNueva(fila)
                    /\ fila.monto_pagado = DebeEnTabla(g, q)
        /\ \A n \in 1..5 :
                PagarSemana(g, q, n) =>
                    \E fila \in DOMAIN pagos' :
                        /\ FilaNueva(fila)
                        /\ fila.monto_pagado * calcular_semanas_del_mes(
                                mes_seleccionado[1], mes_seleccionado[2])
                            = DebeEnTabla(g, q)]_vars


\* C29: through the pay buttons of one session the ledger never holds two
\* rows of the same expense, month, year, payer and week: the button of an
\* expense that is not weekly records only while verificar_pago_existente is
\* false for the person, and the button of a week only for a week that is
\* not in obtener_semanas_pagadas, so every step that adds a row adds one
\* for which verificar_pago_existente was false.
C29_SinPagoDoble ==
    /\ [](\A f1 \in DOMAIN pagos :
            /\ pagos[f1] = 1
            /\ \A f2 \in DOMAIN pagos :
                    (/\ f1.gasto_id = f2.gasto_id /\ f1.mes = f2.mes
                     /\ f1.anio = f2.anio /\ f1.quien_pago = f2.quien_pago
                     /\ f1.semana = f2.semana) => f1 = f2)
    /\ [][\A fila \in DOMAIN pagos' :
            CopiesIn(fila, pagos') > CopiesIn(fila, pagos) =>
                ~verificar_pago_existente(
                    fila.gasto_id, fila.mes, fila.anio, fila.quien_pago, fila.semana)]_vars

\* Ricardo has paid an expense in the selected month while it was monthly
\* and, after it was edited to weekly, its first week: one row each, week 1
\* is no longer pending and week 2 still is
C29_Witness ==
    \E h \in GastosActivos :
        /\ gastos[h].frecuencia = "Semanal"
        /\ \E fila \in PagosDe(h, mes_seleccionado[1], mes_seleccionado[2], "Ricardo") :
                fila.semana = Null /\ pagos[fila] = 1
        /\ \E fila \in PagosDe(h, mes_seleccionado[1], mes_seleccionado[2], "Ricardo") :
                fila.semana = Some(1) /\ pagos[fila] = 1
        /\ 1 \notin SemanasPendientes(h, "Ricardo")
        /\ 2 \in SemanasPendientes(h, "Ricardo")


\* The sum of the person's payments of the selected month for the expense of
\* a statement row, or for the member expenses of a group row
PagadoDeFila(fila, persona) ==
    LET miembros == IF fila.id[1] = "grupo"
                    THEN {g \in GastoIds : <<fila.id[2], g>> \in gastos_en_grupo}
                    ELSE {fila.id[2]}
        filas == {p \in BagToSet(pagos) :
                    /\ p.gasto_id \in miembros
                    /\ p.mes = mes_seleccionado[1] /\ p.anio = mes_seleccionado[2]
                    /\ p.quien_pago = persona}
    IN  SumF([p \in filas |-> p.monto_pagado * CopiesIn(p, pagos)], filas)

\* C25: in a person's tab the pending amount of a statement row is the
\* person's owed share minus the sum of the person's payments of the
\* selected month for the row's expense (for a group row, its member
\* expenses), and the row is listed exactly when that difference is
\* positive.
C25_PendienteEsParteMenosPagado ==
    \A persona \in Personas :
        \A fila \in calcular_tabla_mensual(mes_seleccionado[1], mes_seleccionado[2]) :
            /\ pendiente(fila, persona) =
                    debe_pagar_total(fila, persona) - PagadoDeFila(fila, persona)
            /\ fila \in gastos_con_info(persona) <=>
                    debe_pagar_total(fila, persona) - PagadoDeFila(fila, persona) > 0


\* C26: the pending confirmation of 'Eliminar Todos' is bound to the month it
\* was armed for: the click that deletes the payments of the selected month
\* follows an arming click made with that same month selected.
C26_ConfirmacionDelMes ==
    [][(confirmar_eliminar_todos /\ EliminarTodos) =>
            mes_armado = Some(mes_seleccionado)]_vars


\* C27: for every month the 'Monto Total' of the statement's rows add up to
\* the monthly amounts, resolved by frequency, of the active expenses: no
\* active expense is left out of the statement and none is counted twice.
C27_TotalDeLaTabla ==
    \A p \in Periodos :
        LET tabla == calcular_tabla_mensual(p[1], p[2])
        IN  SumF([r \in tabla |-> r.MontoTotal], tabla)
                = SumF([g \in GastosActivos |->
                            calcular_monto_mensual_segun_frecuencia(
                                MontoSegunTipo(g, p[1], p[2]),
                                gastos[g].frecuencia, p[1], p[2])],
                       GastosActivos)


\* C28: after any add and edit submissions every active expense with a fixed
\* contribution has its fixed amount at most its base amount, and a
\* submission that fails the checks (fixed amount above the base amount,
\* empty label, base amount not positive) leaves the store as it was.
C28_FijoNoSuperaLaBase ==
    /\ [](\A g \in GastosActivos :
            /\ gastos[g].tipo_distribucion = "fijo_ricardo" =>
                    PyOr(gastos[g].monto_fijo_ricardo, 0) <= gastos[g].monto_total
            /\ gastos[g].tipo_distribucion = "fijo_wendy" =>
                    PyOr(gastos[g].monto_fijo_wendy, 0) <= gastos[g].monto_total)
    /\ [][\A f \in FormulariosValidar :
            ~FormularioAceptado(f) =>
                /\ AgregarGasto(f) => UNCHANGED gastos
                /\ \A g \in GastoIds : EditarGasto(g, f) => UNCHANGED gastos]_vars


=============================================================================
